---- MODULE Spec2Model ----
(***************************************************************************)
(* Model of src/src/index.ts: an Express application with one JSON body    *)
(* parsing middleware and two GET routes, started with app.listen(PORT).   *)
(*                                                                         *)
(* The program's own text is 35 lines; what it does on a request is the    *)
(* behaviour of the calls it makes (express(), express.json(), app.get,    *)
(* res.send, res.json, app.listen) and of process.env.PORT || 5000.  Each  *)
(* definition below models the call named next to it.                      *)
(***************************************************************************)
EXTENDS Integers, Sequences, FiniteSets, Bags, TLC

VARIABLES
    phase,      \* "start" | "resolved" | "binding" | "listening" | "exited"
    env,        \* process.env.PORT: [set |-> BOOLEAN, val |-> sequence of characters]
    PORT,       \* const PORT (index.ts:5): [type |-> "number"|"string", n, s]
    target,     \* what server.listen is binding: [kind |-> "none"|"port"|"pipe", port, path]
    bound,      \* the address the listener holds once listening (same shape as target)
    stdout,     \* the lines console.log has written
    stderr,     \* TRUE once an uncaught error has been printed
    exitCode,   \* -1 while the process runs, else its exit status
    conns       \* the bag of requests in flight, each with what the app has done with it

vars == <<phase, env, PORT, target, bound, stdout, stderr, exitCode, conns>>

----------------------------------------------------------------------------
(* Bounds of the model *)

\* Longest value of the PORT environment variable that is enumerated.
MaxPortLen == 5

\* Number of requests that can be in flight at the same time.
MaxReq == 2

\* Characters a PORT value is made of: four digits and one letter.
PortChars == {"0", "3", "5", "6", "x"}

RECURSIVE SeqsUpTo(_, _)
SeqsUpTo(S, n) ==
    IF n = 0 THEN {<<>>}
    ELSE LET shorter == SeqsUpTo(S, n - 1)
         IN  shorter \cup {Append(s, c) : s \in {t \in shorter : Len(t) = n - 1}, c \in S}

EnvValues == [set : {TRUE}, val : SeqsUpTo(PortChars, MaxPortLen)]
                 \cup {[set |-> FALSE, val |-> <<>>]}

\* Ports the operating system may hand out when asked to bind port 0.
EphemeralPorts == {32768, 60999}

----------------------------------------------------------------------------
(* JavaScript conversions used by line 5, line 33 and line 34 *)

IsDigit(c) == c \in {"0", "1", "2", "3", "4", "5", "6", "7", "8", "9"}

DigitVal(c) ==
    CASE c = "0" -> 0 [] c = "1" -> 1 [] c = "2" -> 2 [] c = "3" -> 3 [] c = "4" -> 4
      [] c = "5" -> 5 [] c = "6" -> 6 [] c = "7" -> 7 [] c = "8" -> 8 [] c = "9" -> 9

DigitChar(d) ==
    CASE d = 0 -> "0" [] d = 1 -> "1" [] d = 2 -> "2" [] d = 3 -> "3" [] d = 4 -> "4"
      [] d = 5 -> "5" [] d = 6 -> "6" [] d = 7 -> "7" [] d = 8 -> "8" [] d = 9 -> "9"

\* Number(s) for a string of the characters above: the decimal value of a
\* digit string, 0 for the empty string, NaN (here -1) for anything else.
RECURSIVE DecimalValue(_)
DecimalValue(s) ==
    IF s = <<>> THEN 0
    ELSE 10 * DecimalValue(SubSeq(s, 1, Len(s) - 1)) + DigitVal(s[Len(s)])

NaN == -1

Number(s) ==
    IF \A i \in 1..Len(s) : IsDigit(s[i]) THEN DecimalValue(s) ELSE NaN

\* String(n) for a non-negative integer n.
RECURSIVE NumberToString(_)
NumberToString(n) ==
    IF n < 10 THEN <<DigitChar(n)>>
    ELSE Append(NumberToString(n \div 10), DigitChar(n % 10))

\* `${PORT}`: a number is printed in decimal, a string as it is.
String(p) == IF p.type = "number" THEN NumberToString(p.n) ELSE p.s

----------------------------------------------------------------------------
(* Startup: index.ts lines 5 and 33-35 *)

DefaultPort == 5000

NoAddress == [kind |-> "none", port |-> 0, path |-> <<>>]

\* A variant that ignores the environment: const PORT = 5000.
ResolvedPort_hardcoded(e) == [type |-> "number", n |-> DefaultPort, s |-> <<>>]

\* process.env.PORT || 5000: an unset variable (undefined) and the empty
\* string are falsy and give the number 5000; any other string is kept as is.
ResolvedPort(e) ==
    IF e.set /\ e.val # <<>>
    THEN [type |-> "string", n |-> 0, s |-> e.val]
    ELSE [type |-> "number", n |-> DefaultPort, s |-> <<>>]

\* The numeric value server.listen gives its first argument.
PortValue(p) == IF p.type = "number" THEN p.n ELSE Number(p.s)

\* server.listen(arg): a string that is no non-negative number names a pipe
\* (a Unix socket path), anything else is a port.
isPipeName(p) == p.type = "string" /\ ~(Number(p.s) >= 0)

\* server.listen rejects a port outside 0..65535 by throwing.
validatePort(v) == v >= 0 /\ v <= 65535

\* The address server.listen(PORT) asks the operating system for.
ListenTarget(p) ==
    IF isPipeName(p)
    THEN [kind |-> "pipe", port |-> 0, path |-> p.s]
    ELSE [kind |-> "port", port |-> PortValue(p), path |-> <<>>]

\* A variant that logs the default port instead of PORT.
StartupMessage_default(p) ==
    <<"Server is running on http://localhost:">> \o NumberToString(DefaultPort)

\* console.log(`Server is running on http://localhost:${PORT}`): the fixed
\* text followed by the characters of String(PORT).
StartupMessage(p) == <<"Server is running on http://localhost:">> \o String(p)

\* const PORT = process.env.PORT || 5000;
ResolvePort ==
    /\ phase = "start"
    /\ PORT' = ResolvedPort(env)
    /\ phase' = "resolved"
    /\ UNCHANGED <<env, target, bound, stdout, stderr, exitCode, conns>>

\* app.listen(PORT, cb) with an acceptable argument: the bind is started.
Listen ==
    /\ phase = "resolved"
    /\ isPipeName(PORT) \/ validatePort(PortValue(PORT))
    /\ target' = ListenTarget(PORT)
    /\ phase' = "binding"
    /\ UNCHANGED <<env, PORT, bound, stdout, stderr, exitCode, conns>>

\* app.listen(PORT, cb) with a port above 65535: server.listen throws
\* ERR_SOCKET_BAD_PORT, nothing catches it, the process dies with status 1.
ListenBadPort ==
    /\ phase = "resolved"
    /\ ~isPipeName(PORT) /\ ~validatePort(PortValue(PORT))
    /\ phase' = "exited"
    /\ exitCode' = 1
    /\ stderr' = TRUE
    /\ UNCHANGED <<env, PORT, target, bound, stdout, conns>>

\* The bind succeeds: the server emits 'listening' and the callback of line
\* 33 logs.  Port 0 asks the operating system for any free port.
Listening ==
    /\ phase = "binding"
    /\ \E a \in (IF target.kind = "port" /\ target.port = 0
                 THEN {[kind |-> "port", port |-> q, path |-> <<>>] : q \in EphemeralPorts}
                 ELSE {target}) :
          bound' = a
    /\ stdout' = Append(stdout, StartupMessage(PORT))
    /\ phase' = "listening"
    /\ UNCHANGED <<env, PORT, target, stderr, exitCode, conns>>

\* The bind fails (EADDRINUSE, EACCES) and the server emits 'error'.
\* index.ts registers no 'error' listener of its own, so what follows is the
\* framework's doing.  With Express 4 app.listen hands the callback to
\* server.listen alone: the 'error' event is unhandled, the error is thrown
\* and the process dies with status 1.
ListenErrorUncaught ==
    /\ phase = "binding"
    /\ phase' = "exited"
    /\ exitCode' = 1
    /\ stderr' = TRUE
    /\ UNCHANGED <<env, PORT, target, bound, stdout, conns>>

\* With Express 5 app.listen also registers the callback for 'error': it is
\* called with the error, which the callback of line 33 does not look at, so
\* it logs its line; nothing keeps the event loop alive and the process ends
\* with status 0.
ListenErrorCallback ==
    /\ phase = "binding"
    /\ stdout' = Append(stdout, StartupMessage(PORT))
    /\ phase' = "exited"
    /\ exitCode' = 0
    /\ UNCHANGED <<env, PORT, target, bound, stderr, conns>>

Startup ==
    \/ ResolvePort
    \/ Listen
    \/ ListenBadPort
    \/ Listening
    \/ ListenErrorUncaught
    \/ ListenErrorCallback


----------------------------------------------------------------------------
(* Requests *)

Methods == {"GET", "HEAD", "POST", "OPTIONS"}

\* A request target: the path's segments, whether it ends in a slash, and
\* the query string.
Url(segs, slash, search) == [segments |-> segs, slash |-> slash, search |-> search]

Urls ==
    { Url(<<>>, FALSE, ""),                 \* /
      Url(<<>>, FALSE, "q=1"),              \* /?q=1
      Url(<<"products">>, FALSE, ""),       \* /products
      Url(<<"PRODUCTS">>, TRUE, ""),        \* /PRODUCTS/
      Url(<<"unknown">>, FALSE, "") }       \* /unknown

\* Content-Type header, body text and Content-Length; the first is a request
\* without a body, the last stands for a well-formed body just over 100kb.
Payloads ==
    { [contentType |-> "",                 body |-> "",                length |-> 0],
      [contentType |-> "application/json", body |-> "{\"a\":1}",       length |-> 7],
      [contentType |-> "application/json", body |-> "{\"a\":",         length |-> 5],
      [contentType |-> "text/plain",       body |-> "{\"a\":",         length |-> 5],
      [contentType |-> "application/json", body |-> "{\"a\":\"...\"}", length |-> 102401] }

Requests ==
    { [method |-> m, url |-> u, contentType |-> p.contentType, body |-> p.body,
       length |-> p.length] :
        m \in Methods, u \in Urls, p \in Payloads }

NoRequest == [method |-> "", url |-> Url(<<>>, FALSE, ""), contentType |-> "", body |-> "",
              length |-> 0]

NoResponse == [status |-> 0, contentType |-> "", allow |-> "", body |-> ""]

----------------------------------------------------------------------------
(* The application: index.ts lines 3-30 *)

\* A variant that registers the routes before the body parser.
stack_routesFirst ==
    << [kind |-> "route", name |-> "hello",      method |-> "GET", path |-> <<>>],
       [kind |-> "route", name |-> "products",   method |-> "GET", path |-> <<"products">>],
       [kind |-> "use",   name |-> "jsonParser", method |-> "",    path |-> <<>>] >>

\* The layers of the app in the order lines 8, 14 and 22 register them.
stack ==
    << [kind |-> "use",   name |-> "jsonParser", method |-> "",    path |-> <<>>],
       [kind |-> "route", name |-> "hello",      method |-> "GET", path |-> <<>>],
       [kind |-> "route", name |-> "products",   method |-> "GET", path |-> <<"products">>] >>

\* String.prototype.toLowerCase on the path segments in use.
toLowerCase(seg) ==
    CASE seg = "PRODUCTS" -> "products"
      [] seg = "Products" -> "products"
      [] OTHER -> seg

\* How a route path matches a request: express() leaves 'case sensitive
\* routing' and 'strict routing' off, so letter case and one trailing slash
\* are ignored; the query string is not part of the path.
matchPath(routePath, url) ==
    /\ Len(url.segments) = Len(routePath)
    /\ \A i \in 1..Len(routePath) : toLowerCase(url.segments[i]) = toLowerCase(routePath[i])

\* A variant in which the routes are registered with app.all.
handlesMethod_all(layer, method) == TRUE

\* A route registered with app.get answers GET, and HEAD as well.
handlesMethod(layer, method) ==
    \/ method = layer.method
    \/ method = "HEAD" /\ layer.method = "GET"

\* express.json() looks at a request only if it carries a body (a non-zero
\* Content-Length) declared as application/json.
hasBody(req) == req.length > 0

shouldParse(req) == req.contentType = "application/json"

\* The default limit of express.json(), '100kb', in bytes.
JsonLimit == 102400

\* JSON.parse on the body texts in use: TRUE when the text parses.
JSONparses(text) == text \in {"{\"a\":1}", "{\"a\":\"...\"}", "{}", "[]"}

\* The sample products of lines 24-28.
products ==
    << [id |-> 1, name |-> "Product A", price |-> 100],
       [id |-> 2, name |-> "Product B", price |-> 150],
       [id |-> 3, name |-> "Product C", price |-> 200] >>

\* JSON.stringify of one product and of a list of them.
stringifyProduct(p) ==
    "{\"id\":" \o ToString(p.id) \o ",\"name\":\"" \o p.name
        \o "\",\"price\":" \o ToString(p.price) \o "}"

RECURSIVE stringifyList(_)
stringifyList(ps) ==
    IF ps = <<>> THEN ""
    ELSE IF Len(ps) = 1 THEN stringifyProduct(ps[1])
    ELSE stringifyProduct(ps[1]) \o "," \o stringifyList(Tail(ps))

\* A HEAD response carries the headers of the GET response and no body.
sendBody(req, text) == IF req.method = "HEAD" THEN "" ELSE text

\* res.send("Hello, World from the Dockerize App!")
hello(req) ==
    [status |-> 200, contentType |-> "text/html; charset=utf-8", allow |-> "",
     body |-> sendBody(req, "Hello, World from the Dockerize App!")]

\* res.json({ products: [...] })
productsHandler(req) ==
    [status |-> 200, contentType |-> "application/json; charset=utf-8", allow |-> "",
     body |-> sendBody(req, "{\"products\":[" \o stringifyList(products) \o "]}")]

handler(name, req) == IF name = "hello" THEN hello(req) ELSE productsHandler(req)

\* The path of the request target as text, for the default not-found page.
RECURSIVE pathText(_)
pathText(segs) == IF segs = <<>> THEN "" ELSE "/" \o Head(segs) \o pathText(Tail(segs))

pathname(url) ==
    IF url.segments = <<>> THEN "/"
    ELSE pathText(url.segments) \o (IF url.slash THEN "/" ELSE "")

\* A variant with a catch-all that answers every unmatched request like /.
notFound_catchAll(req, allowed) == hello(req)

\* The end of the stack with no error pending: an OPTIONS request for which
\* some route matched is answered with the methods of those routes, every
\* other request with the default 404 page.
notFound(req, allowed) ==
    IF req.method = "OPTIONS" /\ allowed # ""
    THEN [status |-> 200, contentType |-> "text/html; charset=utf-8", allow |-> allowed,
          body |-> allowed]
    ELSE [status |-> 404, contentType |-> "text/html; charset=utf-8", allow |-> "",
          body |-> sendBody(req, "Cannot " \o req.method \o " " \o pathname(req.url))]

\* The methods a route registered with app.get offers to OPTIONS.
routeOptions(layer) == IF layer.method = "GET" THEN "GET,HEAD" ELSE layer.method

\* The end of the stack with an error pending: no error-handling middleware
\* is registered, so the default handler answers with the error's status.
errorResponse(req, status) ==
    [status |-> status, contentType |-> "text/html; charset=utf-8", allow |-> "",
     body |-> sendBody(req, IF status = 413 THEN "Payload Too Large" ELSE "Bad Request")]

\* The outcome of express.json() when it is done with the body: next(err)
\* with err.status = 413 for a body over the limit and with err.status = 400
\* for a text that does not parse, next() (here 0) otherwise.
jsonParserStatus(req) ==
    IF req.length > JsonLimit THEN 413
    ELSE IF JSONparses(req.body) THEN 0
    ELSE 400

\* Whether express.json() has to read the body before it calls next.
jsonParserReads(req) == hasBody(req) /\ shouldParse(req)

\* The walk of a request down the stack from layer idx on.  It ends with a
\* response, or suspended at the body parser while the body is being read
\* (suspended is then the index of that layer, and 0 otherwise).  allowed
\* collects the methods of the routes that matched an OPTIONS request, and
\* trace the names of the layers that ran.
RECURSIVE dispatch(_, _, _, _)
dispatch(req, idx, allowed, trace) ==
    IF idx > Len(stack)
    THEN [res |-> notFound(req, allowed), trace |-> Append(trace, "finalhandler"),
          suspended |-> 0]
    ELSE LET layer == stack[idx] IN
         IF layer.kind = "use"
         THEN IF jsonParserReads(req)
              THEN [res |-> NoResponse, trace |-> Append(trace, layer.name),
                    suspended |-> idx]
              ELSE dispatch(req, idx + 1, allowed, Append(trace, layer.name))
         ELSE IF ~matchPath(layer.path, req.url)
              THEN dispatch(req, idx + 1, allowed, trace)
              ELSE IF handlesMethod(layer, req.method)
                   THEN [res |-> handler(layer.name, req),
                         trace |-> Append(trace, layer.name), suspended |-> 0]
                   ELSE dispatch(req, idx + 1,
                                 IF req.method = "OPTIONS" /\ allowed = ""
                                 THEN routeOptions(layer) ELSE allowed,
                                 trace)

\* The walk resumed when the body parser suspended at layer idx is done.
resume(req, idx, trace) ==
    IF jsonParserStatus(req) = 0
    THEN dispatch(req, idx + 1, "", trace)
    ELSE [res |-> errorResponse(req, jsonParserStatus(req)),
          trace |-> Append(trace, "finalhandler"), suspended |-> 0]

\* app(req, res): what the server does with a request when it arrives.
app(req) == dispatch(req, 1, "", <<>>)

----------------------------------------------------------------------------
(* Serving *)

\* One request in flight: reading while the body parser waits for the body,
\* done once the response has been written.
InFlight(req, r) ==
    [state |-> IF r.suspended > 0 THEN "reading" ELSE "done",
     req |-> req, res |-> r.res, trace |-> r.trace, suspended |-> r.suspended]

Conns == BagToSet(conns)

\* A request arrives on a new connection and is handed to the app, which
\* runs until it has answered or has to wait for the body.
Receive(req) ==
    /\ phase = "listening"
    /\ BagCardinality(conns) < MaxReq
    /\ conns' = conns (+) SetToBag({InFlight(req, app(req))})
    /\ UNCHANGED <<phase, env, PORT, target, bound, stdout, stderr, exitCode>>

\* The body of a request the parser is waiting on has arrived in full.
BodyEnd(c) ==
    /\ phase = "listening"
    /\ c.state = "reading"
    /\ conns' = (conns (-) SetToBag({c}))
                    (+) SetToBag({InFlight(c.req, resume(c.req, c.suspended, c.trace))})
    /\ UNCHANGED <<phase, env, PORT, target, bound, stdout, stderr, exitCode>>

\* The client has its response and the connection is closed.
Close(c) ==
    /\ phase = "listening"
    /\ c.state = "done"
    /\ conns' = conns (-) SetToBag({c})
    /\ UNCHANGED <<phase, env, PORT, target, bound, stdout, stderr, exitCode>>

Serve ==
    \/ \E req \in Requests : Receive(req)
    \/ \E c \in Conns : BodyEnd(c)
    \/ \E c \in Conns : Close(c)

----------------------------------------------------------------------------
(* Specifications *)

InitWith(e) ==
    /\ phase = "start"
    /\ env = e
    /\ PORT = [type |-> "number", n |-> 0, s |-> <<>>]
    /\ target = NoAddress
    /\ bound = NoAddress
    /\ stdout = <<>>
    /\ stderr = FALSE
    /\ exitCode = -1
    /\ conns = EmptyBag

\* The process started with PORT unset, as the README starts it, and with a
\* PORT that server.listen rejects.
SampleEnv ==
    { [set |-> FALSE, val |-> <<>>],
      [set |-> TRUE,  val |-> <<"6", "5", "5", "3", "6">>] }

Init == \E e \in SampleEnv : InitWith(e)

Next == Startup \/ Serve

Spec == Init /\ [][Next]_vars

\* Startup alone, for every value of the PORT environment variable.
StartupInit == \E e \in EnvValues : InitWith(e)

StartupSpec == StartupInit /\ [][Startup]_vars

----------------------------------------------------------------------------
(* Properties *)

HelloText == "Hello, World from the Dockerize App!"

ProductsText ==
    "{\"products\":[{\"id\":1,\"name\":\"Product A\",\"price\":100},"
        \o "{\"id\":2,\"name\":\"Product B\",\"price\":150},"
        \o "{\"id\":3,\"name\":\"Product C\",\"price\":200}]}"

Answered == {c \in Conns : c.state = "done"}

IsGetOf(c, path) == c.req.method = "GET" /\ pathname(c.req.url) = path

\* A body declared as application/json, within the size limit, that is not
\* JSON; and one over the size limit.
MalformedJson(req) ==
    /\ req.contentType = "application/json"
    /\ req.length > 0 /\ req.length <= 102400
    /\ req.body \notin {"{\"a\":1}", "{}", "[]"}

OversizeJson(req) == req.contentType = "application/json" /\ req.length > 102400

\* C1: every answered GET / has status 200 and exactly the hello text as its
\* body, whatever its query string, headers and body.
C1_HelloAlways ==
    \A c \in Answered :
        IsGetOf(c, "/") => c.res.status = 200 /\ c.res.body = HelloText

\* C2: a GET / that carries a malformed JSON body declared as
\* application/json is still answered with status 200.
C2_MalformedJsonIgnored ==
    \A c \in Answered :
        IsGetOf(c, "/") /\ MalformedJson(c.req) => c.res.status = 200

\* C3: every answered GET /products, after any earlier requests, has status
\* 200 and the JSON text of the three fixed products in their order, whose
\* ids are pairwise distinct.
C3_ProductsFixed ==
    /\ Len(products) = 3
    /\ \A i, j \in 1..Len(products) : i # j => products[i].id # products[j].id
    /\ \A c \in Answered :
          IsGetOf(c, "/products") =>
              /\ c.res.status = 200
              /\ c.res.contentType = "application/json; charset=utf-8"
              /\ c.res.body = ProductsText

\* C8: whenever several requests are in flight together, each answered GET /
\* has the hello response and each answered GET /products the product list,
\* whatever the other requests in flight are.
C8_ConcurrentIndependent ==
    BagCardinality(conns) >= 2 =>
        \A c \in Answered :
            /\ IsGetOf(c, "/") => c.res.status = 200 /\ c.res.body = HelloText
            /\ IsGetOf(c, "/products") => c.res.status = 200 /\ c.res.body = ProductsText

\* The path names no route: neither / nor /products, whatever the letter
\* case and with or without a slash at its end.
PathOfRoute(url) ==
    \/ url.segments = <<>>
    \/ url.segments \in {<<"products">>, <<"PRODUCTS">>, <<"Products">>}

\* C6: every answered request to a path that names no route has a 4xx
\* status, and the process is still listening with no exit status.
C6_UnknownPathIs4xx ==
    \A c \in Answered :
        ~PathOfRoute(c.req.url) =>
            /\ c.res.status >= 400 /\ c.res.status <= 499
            /\ phase = "listening" /\ exitCode = -1 /\ stderr = FALSE

C6_Witness ==
    \E c \in Answered :
        /\ c.req.method = "GET" /\ pathname(c.req.url) = "/unknown"
        /\ c.res.status = 404
        /\ BagCardinality(conns) = MaxReq

\* C7 as stated: every answered request other than GET / and GET /products
\* has status 404 and neither the hello text nor the product list.
C7_OtherIs404 ==
    \A c \in Answered :
        ~(IsGetOf(c, "/") \/ IsGetOf(c, "/products")) =>
            c.res.status = 404 /\ c.res.body \notin {HelloText, ProductsText}

\* C7 amended: every answered request whose method is not GET, HEAD or
\* OPTIONS, or whose path names no route, has status 404, or the error status
\* of the JSON middleware exactly when it rejected the body (413 over the
\* size limit, 400 for malformed JSON), and carries neither the hello text
\* nor the product list.
C7_UnroutedIs4xx ==
    \A c \in Answered :
        (c.req.method \notin {"GET", "HEAD", "OPTIONS"} \/ ~PathOfRoute(c.req.url)) =>
            /\ c.res.status = (IF OversizeJson(c.req) THEN 413
                               ELSE IF MalformedJson(c.req) THEN 400
                               ELSE 404)
            /\ c.res.body \notin {HelloText, ProductsText}

C7_Witness ==
    \E c \in Answered :
        /\ c.req.method = "POST" /\ pathname(c.req.url) = "/products"
        /\ c.req.length = 0
        /\ c.res.status = 404

\* C10: the first layer every request runs is the JSON body parser, before
\* any route is tried; a request whose body is still being read has run no
\* handler and has no response; and a route handler has run only for a
\* request whose body the parser did not reject.
HandlerRan(c) == \E k \in 1..Len(c.trace) : c.trace[k] \in {"hello", "products"}

C10_ParserBeforeRoutes ==
    \A c \in Conns :
        /\ Len(c.trace) >= 1 /\ c.trace[1] = "jsonParser"
        /\ \A k \in 2..Len(c.trace) : c.trace[k] # "jsonParser"
        /\ c.state = "reading" => ~HandlerRan(c) /\ c.res = NoResponse
        /\ HandlerRan(c) => ~MalformedJson(c.req) /\ ~OversizeJson(c.req)
        /\ c.res.body \in {HelloText, ProductsText} =>
              ~MalformedJson(c.req) /\ ~OversizeJson(c.req)

C10_Witness ==
    \E c \in Answered :
        /\ c.req.contentType = "application/json" /\ c.req.body = "{\"a\":1}"
        /\ c.trace = <<"jsonParser", "products">>
        /\ \E d \in Conns : d.state = "reading" /\ MalformedJson(d.req)

----------------------------------------------------------------------------
(* Properties of startup, checked under StartupSpec *)

\* PORT is a decimal integer in 1..65535.
PortInRange(e) ==
    /\ e.set /\ e.val # <<>>
    /\ \A i \in 1..Len(e.val) : IsDigit(e.val[i])
    /\ DecimalValue(e.val) >= 1 /\ DecimalValue(e.val) <= 65535

\* C5: once listening, the listener holds port 5000 when PORT is unset, and
\* the port PORT names when PORT is an integer in 1..65535 (written without
\* leading zeros, the port's decimal text is PORT itself).
C5_PortResolution ==
    phase = "listening" =>
        /\ ~env.set => bound = [kind |-> "port", port |-> 5000, path |-> <<>>]
        /\ PortInRange(env) =>
              /\ bound = [kind |-> "port", port |-> DecimalValue(env.val), path |-> <<>>]
              /\ env.val[1] # "0" => NumberToString(bound.port) = env.val

C5_Witness ==
    /\ phase = "listening"
    /\ env = [set |-> TRUE, val |-> <<"3", "0", "0", "0">>]
    /\ bound.kind = "port" /\ bound.port = 3000

\* The text after the fixed part of the one line written to stdout.
LoggedPort == SubSeq(stdout[1], 2, Len(stdout[1]))

\* C9 as stated: once listening, the startup line has been written and the
\* port in it is the value of PORT (5000 when defaulted), which is the port
\* the listener is bound to.
C9_LogsBoundPort ==
    phase = "listening" =>
        /\ Len(stdout) = 1
        /\ LoggedPort = (IF env.set /\ env.val # <<>> THEN env.val ELSE <<"5", "0", "0", "0">>)
        /\ bound.kind = "port" /\ Number(LoggedPort) = bound.port

\* C9 amended: once listening, exactly one startup line has been written; it
\* is the fixed text followed by the value of PORT, or by 5000 when PORT is
\* unset or empty; and that is the port the listener is bound to whenever
\* PORT is unset, empty or an integer in 1..65535.
C9_LogsResolvedPort ==
    phase = "listening" =>
        /\ Len(stdout) = 1
        /\ stdout[1][1] = "Server is running on http://localhost:"
        /\ LoggedPort = (IF env.set /\ env.val # <<>> THEN env.val ELSE <<"5", "0", "0", "0">>)
        /\ (PortInRange(env) \/ ~env.set \/ env.val = <<>>) =>
              bound.kind = "port" /\ DecimalValue(LoggedPort) = bound.port

C9_Witness ==
    /\ phase = "listening"
    /\ env = [set |-> TRUE, val |-> <<"6", "5", "5", "3", "5">>]
    /\ stdout = << <<"Server is running on http://localhost:", "6", "5", "5", "3", "5">> >>
    /\ bound.port = 65535

====
